---- MODULE Spec2Model ----
(***************************************************************************)
(* State-machine model of tt.py, the 4chan thread tracker: the registry    *)
(* file thread_tracker.json, the CLI invocations that load and save it     *)
(* (add, list, remove, expire) and the poll loop of monitor_thread.        *)
(*                                                                         *)
(* Each process of Procs is one shell slot that runs CLI invocations one   *)
(* after another.  Spec runs the invocations of a single slot (operations  *)
(* executed one after another on the same store); SpecConc interleaves the *)
(* invocations of all slots at the granularity of the file operations.     *)
(* SpecRuns is Spec on one board with the history of notifications kept;   *)
(* SpecRoundTrip applies load, save, load to every file content, with the  *)
(* JSON text modelled as tokens; SpecList applies list_threads to          *)
(* registries of up to three threads.                                      *)
(***************************************************************************)
EXTENDS Integers, Sequences, FiniteSets, TLC

\* ---------------------------------------------------------------- bounds
\* Post numbers of a remote thread range over 1..MaxPostNo.
MaxPostNo == 3
\* The clock advances at most MaxTicks times, TickSecs seconds each time.
MaxTicks == 2
\* add_thread is started for a new thread while fewer than MaxAdds tracking
\* ids have been handed out.
MaxAdds == 2
\* The monitoring runs of a record are counted up to MaxRuns.
MaxRuns == 2

TickSecs == 24 * 60 * 60

\* ------------------------------------------------------ program constants
DEFAULT_CHECK_INTERVAL == 120

\* ----------------------------------------------------------------- inputs
Procs    == {1, 2}
SeqProcs == {1}
ThreadIds == {"1"}
Answers   == {"y", "Y ", "n"}

\* What the operator and the remote site offer in one behaviour: the boards
\* with a live thread and the --interval values in use.  Either two boards
\* polled at the default interval, or one board polled at two intervals.
Worlds ==
    { [boards |-> {"b", "g"}, intervals |-> {DEFAULT_CHECK_INTERVAL}, audit |-> FALSE],
      [boards |-> {"g"},      intervals |-> {60, DEFAULT_CHECK_INTERVAL}, audit |-> FALSE] }

\* One board polled at the default interval, with the history of the
\* notifications kept in log.
AuditWorld == [boards |-> {"g"}, intervals |-> {DEFAULT_CHECK_INTERVAL}, audit |-> TRUE]

\* A URL, split at its "/" characters.
Url(board, tid) == <<"https:", "", "boards.4chan.org", board, "thread", tid>>
Urls(w) == {Url(b, t) : b \in w.boards, t \in ThreadIds} \cup {<<"not-a-url">>}

\* ---------------------------------------------------------- the registry
EmptyRegistry == [threads |-> <<>>, next_id |-> 1]

\* The file: absent, holding a complete JSON document, or opened for
\* writing and not yet written (truncated / partly written).
NoFile      == [kind |-> "nofile"]
Partial     == [kind |-> "partial"]
Json(doc)   == [kind |-> "json", doc |-> doc]

\* ------------------------------------------------------- the JSON text
\* A file's text as the tokens of JSON: punctuation, strings and numbers.
Punct(c) == [t |-> "p", v |-> c]
Str(c) == [t |-> "s", v |-> c]
Num(c) == [t |-> "n", v |-> c]
IsPunct(tok, c) == tok.t = "p" /\ tok.v = c

\* A file holding text, and a file that exists and cannot be opened for
\* reading (and perhaps not for writing either).
Text(toks) == [kind |-> "text", text |-> toks]
Unreadable(w) == [kind |-> "unreadable", writable |-> w]

\* The parser's answer when the text is not JSON (json.JSONDecodeError).
ParseFail == [ok |-> FALSE, val |-> <<>>, next |-> 0]

RECURSIVE parse_value(_, _), parse_members(_, _, _)
\* json.load, one value starting at token i: a string, a number or an
\* object; the value and the index after it.
parse_value(toks, i) ==
    IF i > Len(toks) THEN ParseFail
    ELSE IF toks[i].t \in {"s", "n"}
    THEN [ok |-> TRUE, val |-> toks[i].v, next |-> i + 1]
    ELSE IF IsPunct(toks[i], "{")
    THEN IF i + 1 <= Len(toks) /\ IsPunct(toks[i + 1], "}")
         THEN [ok |-> TRUE, val |-> <<>>, next |-> i + 2]
         ELSE parse_members(toks, i + 1, <<>>)
    ELSE ParseFail

\* The members of an object from token i on: "key": value, separated by
\* commas and closed by a brace; a key met again replaces its value.
parse_members(toks, i, acc) ==
    IF i + 1 > Len(toks) THEN ParseFail
    ELSE IF toks[i].t # "s" \/ ~IsPunct(toks[i + 1], ":") THEN ParseFail
    ELSE LET r == parse_value(toks, i + 2) IN
         IF ~r.ok \/ r.next > Len(toks) THEN ParseFail
         ELSE LET key  == toks[i].v
                  acc2 == [k \in (DOMAIN acc) \cup {key} |->
                              IF k = key THEN r.val ELSE acc[k]]
              IN  IF IsPunct(toks[r.next], ",") THEN parse_members(toks, r.next + 1, acc2)
                  ELSE IF IsPunct(toks[r.next], "}")
                  THEN [ok |-> TRUE, val |-> acc2, next |-> r.next + 1]
                  ELSE ParseFail

\* json.load(f): the one value the whole text holds, else JSONDecodeError.
json_load(toks) ==
    LET r == parse_value(toks, 1)
    IN  IF r.ok /\ r.next = Len(toks) + 1 THEN r ELSE ParseFail

\* json.dump of one thread record, its members in the order add_thread
\* wrote them.
dump_record(rec) ==
    <<Punct("{"), Str("id"), Punct(":"), Num(rec.id), Punct(","),
      Str("board"), Punct(":"), Str(rec.board), Punct(","),
      Str("thread_id"), Punct(":"), Str(rec.thread_id), Punct(","),
      Str("title"), Punct(":"), Str(rec.title), Punct(","),
      Str("last_post_no"), Punct(":"), Num(rec.last_post_no), Punct(","),
      Str("last_update"), Punct(":"), Num(rec.last_update), Punct(","),
      Str("check_interval"), Punct(":"), Num(rec.check_interval), Punct(","),
      Str("added_time"), Punct(":"), Num(rec.added_time), Punct("}")>>

RECURSIVE dump_members(_, _)
\* "key": record for the keys of a set, separated by commas.
dump_members(threads, keys) ==
    IF keys = {} THEN <<>>
    ELSE LET k == CHOOSE x \in keys : TRUE
         IN  <<Str(k), Punct(":")>> \o dump_record(threads[k])
             \o (IF keys = {k} THEN <<>> ELSE <<Punct(",")>> \o dump_members(threads, keys \ {k}))

\* Faulty variant of json_dump: next_id is not written.
json_dump_threads_only(reg) ==
    <<Punct("{"), Str("threads"), Punct(":"), Punct("{")>>
    \o dump_members(reg.threads, DOMAIN reg.threads)
    \o <<Punct("}"), Punct("}")>>

\* json.dump(data, f): the text of a registry.
json_dump(reg) ==
    <<Punct("{"), Str("threads"), Punct(":"), Punct("{")>>
    \o dump_members(reg.threads, DOMAIN reg.threads)
    \o <<Punct("}"), Punct(","), Str("next_id"), Punct(":"), Num(reg.next_id), Punct("}")>>

\* load_tracking_data: the document, or the empty registry when the file is
\* absent, cannot be read or does not parse.  Json(doc) stands for the text
\* json.dump wrote for doc, which parses back to doc.
load_tracking_data(file) ==
    CASE file.kind = "json" -> file.doc
      [] file.kind = "text" ->
            LET r == json_load(file.text) IN IF r.ok THEN r.val ELSE EmptyRegistry
      [] OTHER -> EmptyRegistry

\* f"{board}_{thread_id}"
thread_key(board, thread_id) == board \o "_" \o thread_id

\* del data["threads"][key]
DelThread(reg, key) ==
    [reg EXCEPT !.threads = [k \in (DOMAIN reg.threads) \ {key} |-> reg.threads[k]]]

\* data["threads"][key] = rec
PutThread(reg, key, rec) ==
    [reg EXCEPT !.threads =
        [k \in (DOMAIN reg.threads) \cup {key} |->
            IF k = key THEN rec ELSE reg.threads[k]]]

\* parse_thread_url: (board, thread_id) of a matching URL, else ValueError.
parse_thread_url(url) ==
    IF /\ Len(url) >= 6
       /\ url[1] = "https:" /\ url[2] = "" /\ url[3] = "boards.4chan.org"
       /\ url[4] # "" /\ url[5] = "thread" /\ url[6] \in ThreadIds
    THEN [ok |-> TRUE, board |-> url[4], thread_id |-> url[6]]
    ELSE [ok |-> FALSE, board |-> "", thread_id |-> ""]

\* ------------------------------------------------------------ the remote
\* The subject of a thread's first post; the first post of "b" has neither
\* a subject nor a comment.
RemoteSubject(board) == IF board = "g" THEN "News" ELSE ""
OpNo(thread_id) == IF thread_id = "1" THEN 1 ELSE 2

RECURSIVE AscSeq(_)
\* The members of a set of numbers in ascending order.
AscSeq(S) ==
    IF S = {} THEN <<>>
    ELSE LET m == CHOOSE x \in S : \A y \in S : x <= y
         IN  <<m>> \o AscSeq(S \ {m})

\* The snapshots the API can answer for a thread: the first post, then any
\* replies, in ascending post number.
Snapshots(board, thread_id) ==
    { [posts |-> <<[no |-> OpNo(thread_id), sub |-> RemoteSubject(board)]>>
                 \o [i \in 1..Cardinality(R) |-> [no |-> AscSeq(R)[i], sub |-> ""]]]
      : R \in SUBSET ((OpNo(thread_id) + 1)..MaxPostNo) }

\* What urlopen can do: answer a snapshot, HTTP 404, another HTTP error, or
\* fail otherwise (URLError, timeout, undecodable body).
Responses(board, thread_id) ==
    { [kind |-> "ok", body |-> s] : s \in Snapshots(board, thread_id) }
    \cup { [kind |-> k, body |-> [posts |-> <<>>]] : k \in {"http404", "httperr", "urlerr"} }

None == [posts |-> <<>>]

\* fetch_thread_data: the snapshot; None on 404 and on any exception that is
\* not an HTTPError; an HTTPError other than 404 is raised.
fetch_thread_data(resp) ==
    CASE resp.kind = "ok"      -> [raised |-> FALSE, value |-> resp.body]
      [] resp.kind = "http404" -> [raised |-> FALSE, value |-> None]
      [] resp.kind = "httperr" -> [raised |-> TRUE,  value |-> None]
      [] OTHER                 -> [raised |-> FALSE, value |-> None]

\* get_thread_title
get_thread_title(thread_data) ==
    IF thread_data.posts = <<>> THEN "Unknown Thread"
    ELSE LET first_post == thread_data.posts[1]
         IN  IF first_post.sub # "" THEN first_post.sub
             ELSE "Thread " \o ToString(first_post.no)

\* thread_data['posts'][-1]['no']
latest_post_no(thread_data) == thread_data.posts[Len(thread_data.posts)].no

Reverse(s) == [i \in 1..Len(s) |-> s[Len(s) + 1 - i]]

\* Faulty variant of NewPosts: the post at the cursor counts as new.
NewPostsAtOrAbove(posts, cursor) ==
    SelectSeq(Reverse(posts), LAMBDA q : q.no >= cursor)

\* The posts monitor_thread notifies, in the order it sends them:
\* for post in reversed(posts): if post['no'] > last_post_no.
NewPosts(posts, cursor) ==
    SelectSeq(Reverse(posts), LAMBDA q : q.no > cursor)

\* input(...).lower().strip()
LowerStrip(answer) ==
    CASE answer = "Y " -> "y"
      [] answer = "Y"  -> "y"
      [] OTHER         -> answer

\* ------------------------------------------------------------- the state
VARIABLES
    world,     \* the boards and intervals of this behaviour (never changes)
    store,     \* the content of thread_tracker.json
    now,       \* time.time(), in seconds
    pc,        \* where each process is in main
    args,      \* the parsed command line of the invocation
    tgt,       \* main's board and thread_id
    data,      \* the registry the running function loaded (its `data`)
    snap,      \* the last answer of fetch_thread_data (its `thread_data`)
    ret,       \* where the function that called save_tracking_data goes on
    cycle,     \* the notifications and saves of the current poll cycle
    handed,    \* the tracking ids add_thread assigned, in order
    log,       \* per thread key, what was notified since its add (audited worlds)
    outc       \* what the current (or last) invocation did

vars == <<world, store, now, pc, args, tgt, data, snap, ret, cycle, handed, log, outc>>

NoArgs == [cmd |-> "none", url |-> <<>>, board |-> "", thread_id |-> "",
           interval |-> DEFAULT_CHECK_INTERVAL, delete |-> 0, force |-> FALSE]
NoTgt   == [board |-> "", thread_id |-> ""]
NoSnap  == [kind |-> "none", body |-> None]
NoCycle == [notified |-> <<>>, failed |-> {}, saves |-> 0]
NoOutc  == [add |-> "none", rem |-> "none", answer |-> "", mon |-> "none",
            listed |-> <<>>, swept |-> FALSE, exit |-> "none"]

\* The command lines argparse accepts: exactly one of -l, -d, -u, -m.
Invocations(w) ==
    { [NoArgs EXCEPT !.cmd = "list"] }
    \cup { [NoArgs EXCEPT !.cmd = "delete", !.delete = i, !.force = f]
           : i \in 0..MaxAdds, f \in BOOLEAN }
    \cup { [NoArgs EXCEPT !.cmd = "url", !.url = u, !.interval = i]
           : u \in Urls(w), i \in w.intervals }
    \cup { [NoArgs EXCEPT !.cmd = "manual", !.board = b, !.thread_id = t, !.interval = i]
           : b \in w.boards, t \in ThreadIds, i \in w.intervals }

\* The options read after the dispatch: args.interval, args.delete, args.force.
Options(a) ==
    [NoArgs EXCEPT !.interval = a.interval, !.delete = a.delete, !.force = a.force]

Init ==
    /\ world \in Worlds
    /\ store = NoFile
    /\ now = 0
    /\ pc = [p \in Procs |-> "idle"]
    /\ args = [p \in Procs |-> NoArgs]
    /\ tgt = [p \in Procs |-> NoTgt]
    /\ data = [p \in Procs |-> EmptyRegistry]
    /\ snap = [p \in Procs |-> NoSnap]
    /\ ret = [p \in Procs |-> "idle"]
    /\ cycle = [p \in Procs |-> NoCycle]
    /\ handed = <<>>
    /\ log = <<>>
    /\ outc = [p \in Procs |-> NoOutc]

Key(p) == thread_key(tgt[p].board, tgt[p].thread_id)
Tracked(reg, key) == key \in DOMAIN reg.threads

\* The process ends: its locals are gone, what it did stays on record.
Terminate(p, how) ==
    /\ pc' = [pc EXCEPT ![p] = "idle"]
    /\ args' = [args EXCEPT ![p] = NoArgs]
    /\ tgt' = [tgt EXCEPT ![p] = NoTgt]
    /\ data' = [data EXCEPT ![p] = EmptyRegistry]
    /\ snap' = [snap EXCEPT ![p] = NoSnap]
    /\ ret' = [ret EXCEPT ![p] = "idle"]
    /\ cycle' = [cycle EXCEPT ![p] = NoCycle]
    /\ outc' = [outc EXCEPT ![p] = [NoOutc EXCEPT !.swept = outc[p].swept, !.exit = how]]

\* ------------------------------------------------------------------ main
\* A new add is started only while ids are left within the bound.
MayStart(a) ==
    a.cmd \in {"url", "manual"} =>
        LET t == IF a.cmd = "manual" THEN [ok |-> TRUE, board |-> a.board, thread_id |-> a.thread_id]
                 ELSE parse_thread_url(a.url)
        IN  \/ ~t.ok
            \/ Tracked(load_tracking_data(store), thread_key(t.board, t.thread_id))
            \/ Len(handed) < MaxAdds

\* main up to the call of the primary action: parse_args and the dispatch
\* on args.list / args.delete / args.url / args.manual.  A delete id of 0 is
\* falsy and selects no action; an invalid URL ends in sys.exit(1).
main_start(p) ==
    /\ pc[p] = "idle"
    /\ \E a \in Invocations(world) :
        /\ MayStart(a)
        /\ args' = [args EXCEPT ![p] =
                        IF a.cmd = "url" /\ ~parse_thread_url(a.url).ok THEN NoArgs ELSE Options(a)]
        /\ LET t == parse_thread_url(a.url) IN
           CASE a.cmd = "list" ->
                    /\ pc' = [pc EXCEPT ![p] = "list"]
                    /\ tgt' = [tgt EXCEPT ![p] = NoTgt]
                    /\ outc' = [outc EXCEPT ![p] = NoOutc]
             [] a.cmd = "delete" ->
                    /\ pc' = [pc EXCEPT ![p] = IF a.delete # 0 THEN "remove" ELSE "cleanup"]
                    /\ tgt' = [tgt EXCEPT ![p] = NoTgt]
                    /\ outc' = [outc EXCEPT ![p] = NoOutc]
             [] a.cmd = "url" /\ t.ok ->
                    /\ pc' = [pc EXCEPT ![p] = "add_load"]
                    /\ tgt' = [tgt EXCEPT ![p] = [board |-> t.board, thread_id |-> t.thread_id]]
                    /\ outc' = [outc EXCEPT ![p] = NoOutc]
             [] a.cmd = "url" /\ ~t.ok ->
                    /\ pc' = pc
                    /\ tgt' = tgt
                    /\ outc' = [outc EXCEPT ![p] = [NoOutc EXCEPT !.exit = "error"]]
             [] OTHER ->
                    /\ pc' = [pc EXCEPT ![p] = "add_load"]
                    /\ tgt' = [tgt EXCEPT ![p] = [board |-> a.board, thread_id |-> a.thread_id]]
                    /\ outc' = [outc EXCEPT ![p] = NoOutc]
    /\ UNCHANGED <<world, log, store, now, data, snap, ret, cycle, handed>>

\* ------------------------------------------------------ save_tracking_data
\* open(TRACKING_FILE, 'w'): the file is truncated.
save_tracking_data_open(p) ==
    /\ pc[p] = "save_open"
    /\ store' = Partial
    /\ pc' = [pc EXCEPT ![p] = "save_write"]
    /\ UNCHANGED <<world, log, now, args, tgt, data, snap, ret, cycle, handed, outc>>

\* What the file holds once json.dump is done and the file is closed.
save_tracking_data_written(p) == Json(data[p])

\* json.dump(data, f) and the close of the file; the caller goes on.
save_tracking_data_write(p) ==
    /\ pc[p] = "save_write"
    /\ store' = save_tracking_data_written(p)
    /\ pc' = [pc EXCEPT ![p] = ret[p]]
    /\ cycle' = [cycle EXCEPT ![p].saves = @ + 1]
    /\ UNCHANGED <<world, log, now, args, tgt, data, snap, ret, handed, outc>>

\* ------------------------------------------------------------- the history
\* A new record under a key: its cursor at the add, nothing notified yet.
Opened(history, key, cursor) ==
    [k \in (DOMAIN history) \cup {key} |->
        IF k = key THEN [base |-> cursor, seen |-> {}, twice |-> FALSE, runs |-> 0]
        ELSE history[k]]

\* One more monitoring run of the record under a key (MaxRuns stands for
\* MaxRuns or more).
Started(history, key) ==
    IF key \in DOMAIN history
    THEN [history EXCEPT ![key].runs = IF @ < MaxRuns THEN @ + 1 ELSE @]
    ELSE history

\* The calls of send_notification of one cycle, added to the history.
Recorded(history, key, notifs) ==
    IF key \in DOMAIN history
    THEN [history EXCEPT
            ![key].seen = @ \cup {notifs[i] : i \in 1..Len(notifs)},
            ![key].twice = \/ @
                           \/ \E i \in 1..Len(notifs) : notifs[i] \in history[key].seen
                           \/ \E i, j \in 1..Len(notifs) : i # j /\ notifs[i] = notifs[j]]
    ELSE history

\* -------------------------------------------------------------- add_thread
\* Faulty variant of add_thread_load: the presence check is missing.
add_thread_always_fetches(p) ==
    /\ pc[p] = "add_load"
    /\ data' = [data EXCEPT ![p] = load_tracking_data(store)]
    /\ pc' = [pc EXCEPT ![p] = "add_fetch"]
    /\ UNCHANGED <<world, log, store, now, args, tgt, snap, ret, cycle, handed, outc>>

\* add_thread up to its fetch: load, and return when the key is present.
add_thread_load(p) ==
    /\ pc[p] = "add_load"
    /\ LET loaded == load_tracking_data(store) IN
        /\ data' = [data EXCEPT ![p] = loaded]
        /\ IF Tracked(loaded, Key(p))
           THEN /\ pc' = [pc EXCEPT ![p] = "mon_load"]
                /\ outc' = [outc EXCEPT ![p].add = "already"]
           ELSE /\ pc' = [pc EXCEPT ![p] = "add_fetch"]
                /\ outc' = outc
    /\ UNCHANGED <<world, log, store, now, args, tgt, snap, ret, cycle, handed>>

\* The record add_thread inserts.
NewRecord(p, thread_data, tracking_id) ==
    [id |-> tracking_id,
     board |-> tgt[p].board,
     thread_id |-> tgt[p].thread_id,
     title |-> get_thread_title(thread_data),
     last_post_no |-> latest_post_no(thread_data),
     last_update |-> now,
     check_interval |-> args[p].interval,
     added_time |-> now]

\* Faulty variant of NextIdAfterAdd: next_id is not incremented.
NextIdKept(reg) == reg.next_id

\* data["next_id"] += 1
NextIdAfterAdd(reg) == reg.next_id + 1

\* Faulty variant of add_thread_fetch: the registry is saved also when the
\* fetch returned no snapshot.
add_thread_fetch_saves(p) ==
    /\ pc[p] = "add_fetch"
    /\ \E resp \in Responses(tgt[p].board, tgt[p].thread_id) :
        LET r == fetch_thread_data(resp) IN
        IF r.raised
        THEN /\ Terminate(p, "traceback")
             /\ UNCHANGED <<world, log, store, now, handed>>
        ELSE IF r.value = None
        THEN /\ pc' = [pc EXCEPT ![p] = "save_open"]
             /\ ret' = [ret EXCEPT ![p] = "mon_load"]
             /\ outc' = [outc EXCEPT ![p].add =
                            IF resp.kind = "http404" THEN "notfound" ELSE "unfetchable"]
             /\ UNCHANGED <<world, log, store, now, args, tgt, data, snap, cycle, handed>>
        ELSE /\ data' = [data EXCEPT ![p] =
                    [PutThread(data[p], Key(p), NewRecord(p, r.value, data[p].next_id))
                        EXCEPT !.next_id = NextIdAfterAdd(data[p])]]
             /\ pc' = [pc EXCEPT ![p] = "save_open"]
             /\ ret' = [ret EXCEPT ![p] = "add_done"]
             /\ log' = IF world.audit THEN Opened(log, Key(p), latest_post_no(r.value)) ELSE log
             /\ UNCHANGED <<world, store, now, args, tgt, snap, cycle, handed, outc>>

\* add_thread from its fetch to its save: an HTTP error other than 404 is
\* raised and ends the process; no snapshot ("not found" for a 404), and
\* add_thread returns; else
\* the record is inserted under next_id, next_id is incremented and the
\* data is saved.
add_thread_fetch(p) ==
    /\ pc[p] = "add_fetch"
    /\ \E resp \in Responses(tgt[p].board, tgt[p].thread_id) :
        LET r == fetch_thread_data(resp) IN
        IF r.raised
        THEN /\ Terminate(p, "traceback")
             /\ UNCHANGED <<world, log, store, now, handed>>
        ELSE IF r.value = None
        THEN /\ pc' = [pc EXCEPT ![p] = "mon_load"]
             /\ outc' = [outc EXCEPT ![p].add =
                            IF resp.kind = "http404" THEN "notfound" ELSE "unfetchable"]
             /\ UNCHANGED <<world, log, store, now, args, tgt, data, snap, ret, cycle, handed>>
        ELSE /\ data' = [data EXCEPT ![p] =
                    [PutThread(data[p], Key(p), NewRecord(p, r.value, data[p].next_id))
                        EXCEPT !.next_id = NextIdAfterAdd(data[p])]]
             /\ pc' = [pc EXCEPT ![p] = "save_open"]
             /\ ret' = [ret EXCEPT ![p] = "add_done"]
             /\ log' = IF world.audit THEN Opened(log, Key(p), latest_post_no(r.value)) ELSE log
             /\ UNCHANGED <<world, store, now, args, tgt, snap, cycle, handed, outc>>

\* The end of add_thread, after the save: the tracking id is reported
\* ("Now tracking ... (ID: ...)") and add_thread returns.
add_thread_done(p) ==
    /\ pc[p] = "add_done"
    /\ handed' = Append(handed, data[p].threads[Key(p)].id)
    /\ outc' = [outc EXCEPT ![p].add = "added"]
    /\ pc' = [pc EXCEPT ![p] = "mon_load"]
    /\ UNCHANGED <<world, log, store, now, args, tgt, data, snap, ret, cycle>>

\* ------------------------------------------------------------ list_threads
\* The code point of a board name's letter: sorted() compares strings.
Ord(board) == CASE board = "b" -> 98 [] board = "g" -> 103 [] OTHER -> 0

RECURSIVE DictOrder(_, _)
\* The keys of data["threads"] as the dict yields them: in insertion order,
\* which is the order of the ids add_thread assigned.
DictOrder(reg, keys) ==
    IF keys = {} THEN <<>>
    ELSE LET k == CHOOSE x \in keys : \A y \in keys : reg.threads[x].id <= reg.threads[y].id
         IN  <<k>> \o DictOrder(reg, keys \ {k})

\* Faulty variant of InsertDescending: oldest first.
InsertAscending(sorted, rec) ==
    LET before == SelectSeq(sorted, LAMBDA r : r.last_update <= rec.last_update)
        after  == SelectSeq(sorted, LAMBDA r : r.last_update > rec.last_update)
    IN  before \o <<rec>> \o after

\* One more record into a list sorted by last_update, most recent first,
\* behind the records of the same last_update (the sort is stable).
InsertDescending(sorted, rec) ==
    LET before == SelectSeq(sorted, LAMBDA r : r.last_update >= rec.last_update)
        after  == SelectSeq(sorted, LAMBDA r : r.last_update < rec.last_update)
    IN  before \o <<rec>> \o after

RECURSIVE SortByLastUpdate(_)
\* boards[board].sort(key=lambda x: x["last_update"], reverse=True)
SortByLastUpdate(recs) ==
    IF recs = <<>> THEN <<>>
    ELSE InsertDescending(SortByLastUpdate(SubSeq(recs, 1, Len(recs) - 1)), recs[Len(recs)])

RECURSIVE SortedBoards(_)
\* sorted(boards.keys())
SortedBoards(names) ==
    IF names = {} THEN <<>>
    ELSE LET m == CHOOSE x \in names : \A y \in names : Ord(x) <= Ord(y)
         IN  <<m>> \o SortedBoards(names \ {m})

\* What list_threads prints: per board, in the order of sorted(), the
\* records of the board, sorted by last_update.
Listing(reg) ==
    LET order  == DictOrder(reg, DOMAIN reg.threads)
        all    == [i \in 1..Len(order) |-> reg.threads[order[i]]]
        names  == SortedBoards({all[i].board : i \in 1..Len(all)})
    IN  [g \in 1..Len(names) |->
            [board   |-> names[g],
             threads |-> SortByLastUpdate(SelectSeq(all, LAMBDA r : r.board = names[g]))]]

\* list_threads: load and print (nothing for an empty registry); nothing is
\* written.
list_threads(p) ==
    /\ pc[p] = "list"
    /\ outc' = [outc EXCEPT ![p].listed = Listing(load_tracking_data(store))]
    /\ pc' = [pc EXCEPT ![p] = "cleanup"]
    /\ UNCHANGED <<world, log, store, now, args, tgt, data, snap, ret, cycle, handed>>

\* ----------------------------------------------------------- remove_thread
\* The keys whose record carries the tracking id.
KeysWithId(reg, tracking_id) ==
    {k \in DOMAIN reg.threads : reg.threads[k].id = tracking_id}

\* Faulty variant of remove_thread: the answer to the prompt is not looked at.
remove_thread_unasked(p) ==
    /\ pc[p] = "remove"
    /\ LET loaded == load_tracking_data(store)
           found  == KeysWithId(loaded, args[p].delete)
       IN
        IF found = {}
        THEN /\ pc' = [pc EXCEPT ![p] = "cleanup"]
             /\ outc' = [outc EXCEPT ![p].rem = "notfound"]
             /\ data' = [data EXCEPT ![p] = loaded]
             /\ ret' = ret
        ELSE \E k \in found, answer \in Answers :
             /\ pc' = [pc EXCEPT ![p] = "save_open"]
             /\ ret' = [ret EXCEPT ![p] = "cleanup"]
             /\ outc' = [outc EXCEPT ![p].rem = "removed",
                                     ![p].answer = IF args[p].force THEN "" ELSE answer]
             /\ data' = [data EXCEPT ![p] = DelThread(loaded, k)]
    /\ UNCHANGED <<world, log, store, now, args, tgt, snap, cycle, handed>>

\* remove_thread: load, find the record by id, ask unless forced (the
\* answer typed is kept in outc), delete and save.
remove_thread(p) ==
    /\ pc[p] = "remove"
    /\ LET loaded == load_tracking_data(store)
           found  == KeysWithId(loaded, args[p].delete)
       IN
        IF found = {}
        THEN /\ pc' = [pc EXCEPT ![p] = "cleanup"]
             /\ outc' = [outc EXCEPT ![p].rem = "notfound"]
             /\ data' = [data EXCEPT ![p] = loaded]
             /\ ret' = ret
        ELSE \E k \in found, answer \in (IF args[p].force THEN {""} ELSE Answers) :
             IF ~args[p].force /\ LowerStrip(answer) # "y"
             THEN /\ pc' = [pc EXCEPT ![p] = "cleanup"]
                  /\ outc' = [outc EXCEPT ![p].rem = "cancelled", ![p].answer = answer]
                  /\ data' = [data EXCEPT ![p] = loaded]
                  /\ ret' = ret
             ELSE /\ pc' = [pc EXCEPT ![p] = "save_open"]
                  /\ ret' = [ret EXCEPT ![p] = "cleanup"]
                  /\ outc' = [outc EXCEPT ![p].rem = "removed", ![p].answer = answer]
                  /\ data' = [data EXCEPT ![p] = DelThread(loaded, k)]
    /\ UNCHANGED <<world, log, store, now, args, tgt, snap, cycle, handed>>

\* ---------------------------------------------------------- monitor_thread
\* monitor_thread up to its loop: load once, return when the key is absent.
monitor_thread_load(p) ==
    /\ pc[p] = "mon_load"
    /\ LET loaded == load_tracking_data(store) IN
        /\ data' = [data EXCEPT ![p] = loaded]
        /\ IF Tracked(loaded, Key(p))
           THEN /\ pc' = [pc EXCEPT ![p] = "mon_fetch"]
                /\ outc' = [outc EXCEPT ![p].add = "none"]
                /\ log' = IF world.audit THEN Started(log, Key(p)) ELSE log
           ELSE /\ pc' = [pc EXCEPT ![p] = "cleanup"]
                /\ outc' = [outc EXCEPT ![p].mon = "untracked"]
                /\ log' = log
    /\ cycle' = [cycle EXCEPT ![p] = NoCycle]
    /\ UNCHANGED <<world, store, now, args, tgt, snap, ret, handed>>

\* The top of the loop: thread_data = fetch_thread_data(board, thread_id).
\* An HTTP error other than 404 is raised through monitor_thread and main.
monitor_thread_fetch(p) ==
    /\ pc[p] = "mon_fetch"
    /\ \E resp \in Responses(tgt[p].board, tgt[p].thread_id) :
        IF fetch_thread_data(resp).raised
        THEN /\ Terminate(p, "traceback")
        ELSE /\ snap' = [snap EXCEPT ![p] = resp]
             /\ pc' = [pc EXCEPT ![p] = "mon_check"]
             /\ UNCHANGED <<args, tgt, data, ret, cycle, outc>>
    /\ UNCHANGED <<world, log, store, now, handed>>

\* One notify-send call per new post.
Notifications(p, posts, cursor) ==
    [i \in 1..Len(NewPosts(posts, cursor)) |-> NewPosts(posts, cursor)[i].no]

\* Faulty variant of Attempted: the first failed delivery ends the loop over
\* the new posts.
UpToFirstFailure(notifs, failed) ==
    IF \E i \in 1..Len(notifs) : notifs[i] \in failed
    THEN SubSeq(notifs, 1, CHOOSE i \in 1..Len(notifs) :
                            /\ notifs[i] \in failed
                            /\ \A j \in 1..(i - 1) : notifs[j] \notin failed)
    ELSE notifs

\* send_notification returns also when notify-send is missing or exits
\* non-zero (it prints "Failed to send notification"), so the loop over the
\* new posts calls it for every one of them, whichever deliveries failed.
Attempted(notifs, failed) == notifs

\* Faulty variant of AfterNoThreadData: the record is not deleted.
RegistryKept(reg, key) == reg

\* The registry in memory after a fetch that returned no thread data.
AfterNoThreadData(reg, key) == DelThread(reg, key)

\* Faulty variant of AfterNewPosts: added_time is written as well.
AfterNewPostsReadded(rec, thread_data) ==
    [rec EXCEPT !.last_post_no = latest_post_no(thread_data), !.last_update = now,
                !.added_time = now]

\* Faulty variant of AfterNewPosts: the cursor stays where it was.
AfterNewPostsCursorKept(rec, thread_data) ==
    [rec EXCEPT !.last_update = now]

\* thread_info after a cycle that found new posts.
AfterNewPosts(rec, thread_data) ==
    [rec EXCEPT !.last_post_no = latest_post_no(thread_data), !.last_update = now]

\* The body of the loop after the fetch: no thread data, and the record is
\* deleted, the data saved and the loop left; a last post above the cursor,
\* and send_notification is called for every post above it (any of the
\* deliveries may fail), the record updated and the data saved; then the
\* sleep.
monitor_thread_check(p) ==
    /\ pc[p] = "mon_check"
    /\ LET thread_data == fetch_thread_data(snap[p]).value
           thread_info == data[p].threads[Key(p)]
       IN
        IF thread_data = None
        THEN /\ data' = [data EXCEPT ![p] = AfterNoThreadData(data[p], Key(p))]
             /\ pc' = [pc EXCEPT ![p] = "save_open"]
             /\ ret' = [ret EXCEPT ![p] = "cleanup"]
             /\ outc' = [outc EXCEPT ![p].mon = "vanished"]
             /\ cycle' = cycle
             /\ log' = log
        ELSE IF latest_post_no(thread_data) > thread_info.last_post_no
        THEN /\ \E failed \in SUBSET {q.no : q \in
                        {thread_data.posts[i] : i \in 1..Len(thread_data.posts)}} :
                  /\ \A n \in failed : n > thread_info.last_post_no
                  /\ cycle' = [cycle EXCEPT
                        ![p].notified = Attempted(
                            Notifications(p, thread_data.posts, thread_info.last_post_no), failed),
                        ![p].failed = failed]
                  /\ log' = IF world.audit
                            THEN Recorded(log, Key(p), Attempted(
                                Notifications(p, thread_data.posts, thread_info.last_post_no), failed))
                            ELSE log
             /\ data' = [data EXCEPT ![p] =
                            PutThread(data[p], Key(p), AfterNewPosts(thread_info, thread_data))]
             /\ pc' = [pc EXCEPT ![p] = "save_open"]
             /\ ret' = [ret EXCEPT ![p] = "mon_sleep"]
             /\ outc' = outc
        ELSE /\ pc' = [pc EXCEPT ![p] = "mon_sleep"]
             /\ UNCHANGED <<data, ret, outc, cycle, log>>
    /\ UNCHANGED <<world, store, now, args, tgt, snap, handed>>

\* monitor_thread's parameter check_interval: main passes args.interval.
check_interval(p) == args[p].interval

\* The argument of time.sleep while the loop is suspended.
SleepSeconds(p) == check_interval(p)

\* time.sleep(check_interval) returns and the loop goes round.
monitor_thread_sleep(p) ==
    /\ pc[p] = "mon_sleep"
    /\ pc' = [pc EXCEPT ![p] = "mon_fetch"]
    /\ snap' = [snap EXCEPT ![p] = NoSnap]
    /\ cycle' = [cycle EXCEPT ![p] = NoCycle]
    /\ UNCHANGED <<world, log, store, now, args, tgt, data, ret, handed, outc>>

\* Faulty variant of monitor_thread_interrupt: the interrupt is handled as
\* the end of the thread.
monitor_thread_interrupt_deletes(p) ==
    /\ pc[p] \in {"mon_fetch", "mon_sleep"}
    /\ data' = [data EXCEPT ![p] = DelThread(data[p], Key(p))]
    /\ pc' = [pc EXCEPT ![p] = "save_open"]
    /\ ret' = [ret EXCEPT ![p] = "cleanup"]
    /\ outc' = [outc EXCEPT ![p].mon = "interrupt"]
    /\ snap' = [snap EXCEPT ![p] = NoSnap]
    /\ cycle' = [cycle EXCEPT ![p] = NoCycle]
    /\ UNCHANGED <<world, log, store, now, args, tgt, handed>>

\* KeyboardInterrupt during the fetch or the sleep: the except clause
\* prints and monitor_thread returns.
monitor_thread_interrupt(p) ==
    /\ pc[p] \in {"mon_fetch", "mon_sleep"}
    /\ pc' = [pc EXCEPT ![p] = "cleanup"]
    /\ outc' = [outc EXCEPT ![p].mon = "interrupt"]
    /\ snap' = [snap EXCEPT ![p] = NoSnap]
    /\ cycle' = [cycle EXCEPT ![p] = NoCycle]
    /\ UNCHANGED <<world, log, store, now, args, tgt, data, ret, handed>>

\* ----------------------------------------------------- cleanup_old_threads
\* Faulty variant of threads_to_remove: a record exactly 24 hours old goes.
threads_to_remove_at_cutoff(reg, current_time) ==
    {k \in DOMAIN reg.threads :
        reg.threads[k].last_update <= current_time - (24 * 60 * 60)}

\* The keys whose last_update is before the cutoff, 24 hours ago.
threads_to_remove(reg, current_time) ==
    {k \in DOMAIN reg.threads :
        reg.threads[k].last_update < current_time - (24 * 60 * 60)}

\* The registry without the keys of a set.
WithoutThreads(reg, keys) ==
    [reg EXCEPT !.threads = [k \in (DOMAIN reg.threads) \ keys |-> reg.threads[k]]]

\* cleanup_old_threads: load, drop the old records, save when any was dropped.
cleanup_old_threads(p) ==
    /\ pc[p] = "cleanup"
    /\ LET loaded == load_tracking_data(store)
           to_remove == threads_to_remove(loaded, now)
       IN
        /\ data' = [data EXCEPT ![p] = WithoutThreads(loaded, to_remove)]
        /\ outc' = [outc EXCEPT ![p].swept = TRUE]
        /\ IF to_remove # {}
           THEN /\ pc' = [pc EXCEPT ![p] = "save_open"]
                /\ ret' = [ret EXCEPT ![p] = "exit"]
           ELSE /\ pc' = [pc EXCEPT ![p] = "exit"]
                /\ ret' = ret
    /\ UNCHANGED <<world, log, store, now, args, tgt, snap, cycle, handed>>

\* main returns and the process ends.
main_exit(p) ==
    /\ pc[p] = "exit"
    /\ Terminate(p, "ok")
    /\ UNCHANGED <<world, log, store, now, handed>>

\* -------------------------------------------------------------- the clock
Blocked(p) == pc[p] \in {"idle", "mon_fetch", "mon_sleep"}

\* Time passes while every process is idle, sleeping or waiting for a fetch.
Tick ==
    /\ now < MaxTicks * TickSecs
    /\ \A p \in Procs : Blocked(p)
    /\ now' = now + TickSecs
    /\ UNCHANGED <<world, log, store, pc, args, tgt, data, snap, ret, cycle, handed, outc>>

\* ------------------------------------------------------ the specifications
Step(p) ==
    \/ main_start(p)
    \/ save_tracking_data_open(p)
    \/ save_tracking_data_write(p)
    \/ add_thread_load(p)
    \/ add_thread_fetch(p)
    \/ add_thread_done(p)
    \/ list_threads(p)
    \/ remove_thread(p)
    \/ monitor_thread_load(p)
    \/ monitor_thread_fetch(p)
    \/ monitor_thread_check(p)
    \/ monitor_thread_sleep(p)
    \/ monitor_thread_interrupt(p)
    \/ cleanup_old_threads(p)
    \/ main_exit(p)

\* One invocation at a time.
Next == Tick \/ \E p \in SeqProcs : Step(p)

Spec == Init /\ [][Next]_vars

\* Each shell runs one invocation.
main_start_once(p) ==
    /\ outc[p].exit = "none"
    /\ main_start(p)

StepConc(p) ==
    \/ main_start_once(p)
    \/ save_tracking_data_open(p)
    \/ save_tracking_data_write(p)
    \/ add_thread_load(p)
    \/ add_thread_fetch(p)
    \/ add_thread_done(p)
    \/ list_threads(p)
    \/ remove_thread(p)
    \/ monitor_thread_load(p)
    \/ monitor_thread_fetch(p)
    \/ monitor_thread_check(p)
    \/ monitor_thread_sleep(p)
    \/ monitor_thread_interrupt(p)
    \/ cleanup_old_threads(p)
    \/ main_exit(p)

\* Invocations of several processes, interleaved.
NextConc == \E p \in Procs : StepConc(p)

SpecConc == Init /\ [][NextConc]_vars

\* --------------------------------------------------- the store round trip
\* The registries written to the files the round trip starts from: any of
\* the two boards' threads, each at its first or a later cursor, and some
\* next_id.
RoundTripRecord(board, cursor) ==
    [id |-> IF board = "b" THEN 1 ELSE 2, board |-> board, thread_id |-> "1",
     title |-> IF RemoteSubject(board) # "" THEN RemoteSubject(board) ELSE "Thread 1",
     last_post_no |-> cursor,
     last_update |-> IF cursor = 1 THEN 0 ELSE TickSecs,
     check_interval |-> DEFAULT_CHECK_INTERVAL, added_time |-> 0]

RoundTripRegistries ==
    { [threads |-> [k \in {thread_key(b, "1") : b \in B} |->
                        LET b == CHOOSE x \in B : thread_key(x, "1") = k
                        IN  RoundTripRecord(b, c[b])],
       next_id |-> n]
      : B \in SUBSET {"b", "g"}, n \in 1..(MaxAdds + 1),
        c \in [{"b", "g"} -> {1, MaxPostNo}] }

\* The text of a registry with next_id written before threads.
NextIdFirst(reg) ==
    <<Punct("{"), Str("next_id"), Punct(":"), Num(reg.next_id), Punct(","), Str("threads"), Punct(":"), Punct("{")>>
    \o dump_members(reg.threads, DOMAIN reg.threads)
    \o <<Punct("}"), Punct("}")>>

\* The text of a registry followed by a second next_id member.
NextIdTwice(reg) ==
    SubSeq(json_dump(reg), 1, Len(json_dump(reg)) - 1)
    \o <<Punct(","), Str("next_id"), Punct(":"), Num(reg.next_id + 1), Punct("}")>>

\* What thread_tracker.json can hold when load_tracking_data is called: no
\* file; a file that cannot be read; the text of a registry, complete, cut
\* short at any token (a save that was killed), with its members in the
\* other order, with a member twice, or followed by more text.
FileContents ==
    {NoFile, Partial, Unreadable(TRUE), Unreadable(FALSE)}
    \cup UNION { { Text(SubSeq(json_dump(r), 1, n)) : n \in 0..Len(json_dump(r)) }
                  : r \in RoundTripRegistries }
    \cup { Text(NextIdFirst(r)) : r \in RoundTripRegistries }
    \cup { Text(NextIdTwice(r)) : r \in RoundTripRegistries }
    \cup { Text(json_dump(r) \o <<Punct("}")>>) : r \in RoundTripRegistries }

InitRoundTrip ==
    /\ world = [boards |-> {"b", "g"}, intervals |-> {DEFAULT_CHECK_INTERVAL}, audit |-> FALSE]
    /\ store \in FileContents
    /\ now = 0
    /\ pc = [p \in Procs |-> "idle"]
    /\ args = [p \in Procs |-> NoArgs]
    /\ tgt = [p \in Procs |-> NoTgt]
    /\ data = [p \in Procs |-> EmptyRegistry]
    /\ snap = [p \in Procs |-> NoSnap]
    /\ ret = [p \in Procs |-> "idle"]
    /\ cycle = [p \in Procs |-> NoCycle]
    /\ handed = <<>>
    /\ log = <<>>
    /\ outc = [p \in Procs |-> NoOutc]

\* data = load_tracking_data()
round_trip_load(p) ==
    /\ pc[p] = "idle"
    /\ data' = [data EXCEPT ![p] = load_tracking_data(store)]
    /\ pc' = [pc EXCEPT ![p] = "loaded"]
    /\ UNCHANGED <<world, log, store, now, args, tgt, snap, ret, cycle, handed, outc>>

\* save_tracking_data(data), start to end: open(TRACKING_FILE, 'w') raises
\* when the file cannot be written; else the file holds the text json.dump
\* writes (a file that cannot be read stays so).
round_trip_save(p) ==
    /\ pc[p] = "loaded"
    /\ IF store.kind = "unreadable"
       THEN /\ store' = store
            /\ pc' = [pc EXCEPT ![p] = IF store.writable THEN "saved" ELSE "raised"]
       ELSE /\ store' = Text(json_dump(data[p]))
            /\ pc' = [pc EXCEPT ![p] = "saved"]
    /\ UNCHANGED <<world, log, now, args, tgt, data, snap, ret, cycle, handed, outc>>

\* load_tracking_data() again.
round_trip_reload(p) ==
    /\ pc[p] \in {"saved", "raised"}
    /\ data' = [data EXCEPT ![p] = load_tracking_data(store)]
    /\ pc' = [pc EXCEPT ![p] = "reloaded"]
    /\ UNCHANGED <<world, log, store, now, args, tgt, snap, ret, cycle, handed, outc>>

NextRoundTrip ==
    \E p \in SeqProcs :
        \/ round_trip_load(p)
        \/ round_trip_save(p)
        \/ round_trip_reload(p)

\* load, save, load on every file content, with nothing else running.
SpecRoundTrip == InitRoundTrip /\ [][NextRoundTrip]_vars

\* ------------------------------------------------------------ the listing
\* The registries list_threads is run on: up to three threads on two
\* boards, added in any order (the ids) at either of two times.
ListKeys == {<<"b", "1">>, <<"g", "1">>, <<"g", "2">>}

ListRegistries ==
    { [threads |-> [k \in {thread_key(t[1], t[2]) : t \in K} |->
                        LET t == CHOOSE x \in K : thread_key(x[1], x[2]) = k
                        IN  [id |-> ids[t], board |-> t[1], thread_id |-> t[2],
                             title |-> IF t[2] = "1" /\ RemoteSubject(t[1]) # ""
                                       THEN RemoteSubject(t[1])
                                       ELSE "Thread " \o ToString(OpNo(t[2])),
                             last_post_no |-> OpNo(t[2]), last_update |-> upd[t],
                             check_interval |-> DEFAULT_CHECK_INTERVAL,
                             added_time |-> upd[t]]],
       next_id |-> Cardinality(ListKeys) + 1]
      : K \in SUBSET ListKeys,
        ids \in {f \in [ListKeys -> 1..Cardinality(ListKeys)] :
                    \A x, y \in ListKeys : x # y => f[x] # f[y]},
        upd \in [ListKeys -> {0, TickSecs}] }

InitList ==
    /\ world = [boards |-> {"b", "g"}, intervals |-> {DEFAULT_CHECK_INTERVAL}, audit |-> FALSE]
    /\ store \in {NoFile} \cup {Json(r) : r \in ListRegistries}
    /\ now = TickSecs
    /\ pc = [p \in Procs |-> IF p \in SeqProcs THEN "list" ELSE "idle"]
    /\ args = [p \in Procs |-> NoArgs]
    /\ tgt = [p \in Procs |-> NoTgt]
    /\ data = [p \in Procs |-> EmptyRegistry]
    /\ snap = [p \in Procs |-> NoSnap]
    /\ ret = [p \in Procs |-> "idle"]
    /\ cycle = [p \in Procs |-> NoCycle]
    /\ handed = <<>>
    /\ log = <<>>
    /\ outc = [p \in Procs |-> NoOutc]

NextList == \E p \in SeqProcs : list_threads(p)

\* list_threads on every registry of ListRegistries.
SpecList == InitList /\ [][NextList]_vars

\* ------------------------------------------------- the audited behaviours
InitRuns ==
    /\ world = AuditWorld
    /\ store = NoFile
    /\ now = 0
    /\ pc = [p \in Procs |-> "idle"]
    /\ args = [p \in Procs |-> NoArgs]
    /\ tgt = [p \in Procs |-> NoTgt]
    /\ data = [p \in Procs |-> EmptyRegistry]
    /\ snap = [p \in Procs |-> NoSnap]
    /\ ret = [p \in Procs |-> "idle"]
    /\ cycle = [p \in Procs |-> NoCycle]
    /\ handed = <<>>
    /\ log = <<>>
    /\ outc = [p \in Procs |-> NoOutc]

\* One invocation at a time on one board, with the history kept.
SpecRuns == InitRuns /\ [][Next]_vars

\* ------------------------------------------------------------- the claims
Count(seq, x) == Cardinality({i \in 1..Len(seq) : seq[i] = x})
InOwnSave(p, back) == pc[p] \in {"save_open", "save_write"} /\ ret[p] = back

\* C1: a poll cycle whose snapshot ends above the stored cursor notifies
\* every post above the old cursor exactly once and no post at or below it,
\* sets the cursor to the snapshot's last post number, and has written the
\* registry, once, when the loop reaches its sleep (before the next fetch).
C1_PollCycle ==
    [][\A p \in Procs :
        /\ ( /\ pc[p] = "mon_check"
             /\ snap[p].kind = "ok"
             /\ latest_post_no(snap[p].body) > data[p].threads[Key(p)].last_post_no )
           => LET old   == data[p].threads[Key(p)].last_post_no
                  posts == snap[p].body.posts
              IN  /\ \A i \in 1..Len(posts) :
                        Count(cycle'[p].notified, posts[i].no)
                            = IF posts[i].no > old THEN 1 ELSE 0
                  /\ \A j \in 1..Len(cycle'[p].notified) :
                        \E i \in 1..Len(posts) : posts[i].no = cycle'[p].notified[j]
                  /\ data'[p].threads[Key(p)].last_post_no = latest_post_no(snap[p].body)
                  /\ pc'[p] = "save_open"
                  /\ ret'[p] = "mon_sleep"
                  /\ cycle'[p].saves = 0
        /\ (pc[p] = "mon_sleep" /\ cycle[p].notified # <<>>)
           => /\ cycle[p].saves = 1
              /\ store = Json(data[p])
              /\ store.doc.threads[Key(p)].last_post_no = latest_post_no(snap[p].body)
    ]_vars

\* C1 witness: a cycle that found posts 2 and 3 above the cursor 1 has
\* notified both, saved and reached the sleep.
C1_Witness ==
    \E p \in Procs :
        /\ pc[p] = "mon_sleep"
        /\ cycle[p].notified = <<3, 2>>
        /\ cycle[p].saves = 1
        /\ store = Json(data[p])

\* C2: a "not found" (HTTP 404) answer in the loop deletes the record,
\* saves, and leaves the loop: no fetch, notification or sleep follows, and
\* the registry a load returns from then on does not hold the record.
C2_NotFoundEndsTracking ==
    [][\A p \in Procs :
        /\ (pc[p] = "mon_check" /\ snap[p].kind = "http404")
           => /\ ~Tracked(data'[p], Key(p))
              /\ pc'[p] = "save_open"
              /\ ret'[p] = "cleanup"
              /\ outc'[p].mon = "vanished"
        /\ (outc[p].mon = "vanished" /\ snap[p].kind = "http404")
           => /\ pc'[p] \notin {"mon_fetch", "mon_check", "mon_sleep"}
              /\ cycle'[p].notified = <<>>
              /\ InOwnSave(p, "cleanup") /\ pc[p] = "save_write" => store' = Json(data[p])
              /\ ~InOwnSave(p, "cleanup") => ~Tracked(load_tracking_data(store), Key(p))
    ]_vars

\* C2 witness: the monitored thread answered 404, the loop was left and the
\* store, which holds another record, no longer holds this one.
C2_Witness ==
    \E p \in Procs :
        /\ outc[p].mon = "vanished"
        /\ snap[p].kind = "http404"
        /\ pc[p] = "exit"
        /\ store.kind = "json"
        /\ DOMAIN store.doc.threads # {}
        /\ ~Tracked(store.doc, Key(p))

\* C3: a fetch failure that is not a "not found" answer never removes the
\* record: the stored registry still holds it afterwards.
C3_TransportFailureKeepsRecord ==
    \A p \in Procs :
        (snap[p].kind = "urlerr" /\ store.kind = "json")
            => Tracked(store.doc, Key(p))

\* C4: add_thread for a pair already in the registry returns without a
\* fetch and leaves the store, and so every record and next_id, as it was;
\* no id is handed out.
C4_AddExistingIsNoOp ==
    [][\A p \in Procs :
        (pc[p] = "add_load" /\ Tracked(load_tracking_data(store), Key(p)))
            => /\ store' = store
               /\ handed' = handed
               /\ pc'[p] = "mon_load"
               /\ outc'[p].add = "already"
    ]_vars

\* C4 witness: add_thread has returned "already tracked" for a stored record.
C4_Witness ==
    \E p \in Procs :
        /\ pc[p] = "mon_load"
        /\ outc[p].add = "already"
        /\ store.kind = "json"
        /\ Tracked(store.doc, Key(p))

\* C5: the ids handed out by successful add_thread calls, one invocation
\* after another, are strictly increasing (so none is handed out twice).
C5_IdsStrictlyIncrease ==
    \A i, j \in 1..Len(handed) : i < j => handed[i] < handed[j]

\* C5 witness: two ids were handed out and the only record left carries the
\* second: the record with the first id is gone.
C5_Witness ==
    /\ Len(handed) = 2
    /\ store.kind = "json"
    /\ \E k \in DOMAIN store.doc.threads :
        /\ DOMAIN store.doc.threads = {k}
        /\ store.doc.threads[k].id = handed[2]

\* C6: whenever the store holds a registry, its next_id is above the id of
\* every record in it and above every id handed out so far.
C6_NextIdAboveAllIds ==
    store.kind = "json"
        => /\ \A k \in DOMAIN store.doc.threads :
                store.doc.threads[k].id < store.doc.next_id
           /\ \A i \in 1..Len(handed) : handed[i] < store.doc.next_id

\* C7: a save is atomic: at each step of a save, a load of the file returns
\* the registry it returned before the step or the registry being saved.
C7_SaveIsAtomic ==
    [][\A p \in Procs :
        (pc[p] \in {"save_open", "save_write"} /\ pc'[p] # pc[p])
            => \/ load_tracking_data(store') = load_tracking_data(store)
               \/ load_tracking_data(store') = data[p]
    ]_vars

\* C8: an interrupt during the fetch or the sleep leaves the loop and
\* writes nothing: the store is the same after it, and it holds the
\* monitored record exactly as the loop holds it in memory (the cursor and
\* last_update of the last completed cycle, or of add_thread).
C8_InterruptKeepsCommittedState ==
    [][\A p \in Procs :
        (pc[p] \in {"mon_fetch", "mon_sleep"} /\ outc'[p].mon = "interrupt")
            => /\ store' = store
               /\ pc'[p] = "cleanup"
               /\ store.kind = "json"
               /\ Tracked(store.doc, Key(p))
               /\ store.doc.threads[Key(p)] = data[p].threads[Key(p)]
    ]_vars

\* C8 witness: the loop was interrupted after a cycle that had moved the
\* cursor, at a later time than the record was added.
C8_Witness ==
    \E p \in Procs :
        /\ outc[p].mon = "interrupt"
        /\ pc[p] = "cleanup"
        /\ store.kind = "json"
        /\ Tracked(store.doc, Key(p))
        /\ store.doc.threads[Key(p)].last_post_no = 3
        /\ store.doc.threads[Key(p)].last_update > store.doc.threads[Key(p)].added_time

\* C9: cleanup_old_threads drops exactly the records whose last_update is
\* more than 24 hours before the current time; the records that stay and
\* next_id are unchanged; the store is written only when a record was
\* dropped, and then with exactly that registry.
C9_ExpiryRemovesExactlyOld ==
    [][\A p \in Procs :
        /\ (pc[p] = "cleanup" /\ pc'[p] # "cleanup")
           => LET old  == load_tracking_data(store)
                  new  == data'[p]
                  gone == {k \in DOMAIN old.threads :
                             now - old.threads[k].last_update > 24 * 60 * 60}
              IN  /\ DOMAIN new.threads = (DOMAIN old.threads) \ gone
                  /\ \A k \in DOMAIN new.threads : new.threads[k] = old.threads[k]
                  /\ new.next_id = old.next_id
                  /\ store' = store
                  /\ gone = {} => pc'[p] = "exit"
                  /\ gone # {} => pc'[p] = "save_open" /\ ret'[p] = "exit"
        /\ (pc[p] = "save_write" /\ ret[p] = "exit" /\ pc'[p] # pc[p])
           => store' = Json(data[p])
    ]_vars

\* C9 witness: the sweep has dropped one record and kept another, whose
\* last_update is exactly 24 hours old.
C9_Witness ==
    \E p \in Procs :
        /\ pc[p] = "exit"
        /\ ret[p] = "exit"
        /\ store.kind = "json"
        /\ \E k \in DOMAIN store.doc.threads :
            /\ DOMAIN store.doc.threads = {k}
            /\ now - store.doc.threads[k].last_update = 24 * 60 * 60

\* C10: every invocation that has ended has run the expiry sweep.
C10_EveryInvocationSweeps ==
    \A p \in Procs : outc[p].exit # "none" => outc[p].swept

\* C11: remove_thread changes the store only on a confirmed deletion.  When
\* no record carries the id, or when force is false and the answer is not
\* affirmative, remove_thread returns without a save and the store is as it
\* was; when the record exists and the deletion is confirmed or forced, the
\* registry that is saved is the loaded one without exactly that record:
\* every other record and next_id are the same.
C11_RemoveOnlyWhenConfirmed ==
    [][\A p \in Procs :
        /\ pc[p] = "remove"
           => LET old   == load_tracking_data(store)
                  new   == data'[p]
                  found == {k \in DOMAIN old.threads : old.threads[k].id = args[p].delete}
                  unconfirmed == ~args[p].force /\ outc'[p].answer \notin {"y", "Y", "y ", "Y "}
              IN  /\ store' = store
                  /\ (found = {} \/ unconfirmed)
                        => /\ pc'[p] = "cleanup"
                           /\ new = old
                  /\ (found # {} /\ ~unconfirmed)
                        => /\ pc'[p] = "save_open" /\ ret'[p] = "cleanup"
                           /\ \E k \in found :
                                /\ DOMAIN new.threads = (DOMAIN old.threads) \ {k}
                                /\ \A j \in DOMAIN new.threads : new.threads[j] = old.threads[j]
                           /\ new.next_id = old.next_id
        /\ (outc[p].rem \in {"notfound", "cancelled"} /\ pc[p] = "cleanup")
           => store = Json(data[p]) \/ (store = NoFile /\ data[p] = EmptyRegistry)
        /\ (outc[p].rem = "removed" /\ InOwnSave(p, "cleanup") /\ pc[p] = "save_write" /\ pc'[p] # pc[p])
           => store' = Json(data[p]) /\ pc'[p] = "cleanup"
    ]_vars

\* C11 witness: a deletion confirmed with "Y " has been saved; the store
\* still holds the other record and the next_id of two adds.
C11_Witness ==
    \E p \in Procs :
        /\ pc[p] = "cleanup"
        /\ outc[p].rem = "removed"
        /\ outc[p].answer = "Y "
        /\ store.kind = "json"
        /\ Cardinality(DOMAIN store.doc.threads) = 1
        /\ store.doc.next_id = 3

\* C11 second case: a cancelled deletion has left the record in the store.
C11_WitnessCancelled ==
    \E p \in Procs :
        /\ pc[p] = "cleanup"
        /\ outc[p].rem = "cancelled"
        /\ store.kind = "json"
        /\ KeysWithId(store.doc, args[p].delete) # {}

\* C12: when add_thread's fetch reports "not found", add_thread returns with
\* the store as it was: no record inserted, next_id the same, no save
\* started; the monitor_thread call that follows loads that same registry,
\* finds no record and returns: no fetch, no notification, no write.
C12_AddNotFoundChangesNothing ==
    [][\A p \in Procs :
        /\ (pc[p] = "add_fetch" /\ outc'[p].add = "notfound")
           => /\ store' = store
              /\ data'[p] = data[p]
              /\ handed' = handed
              /\ pc'[p] = "mon_load"
        /\ (pc[p] = "mon_load" /\ outc[p].add = "notfound")
           => /\ load_tracking_data(store) = data[p]
              /\ ~Tracked(data[p], Key(p))
              /\ store' = store
              /\ pc'[p] = "cleanup"
              /\ outc'[p].mon = "untracked"
              /\ snap'[p] = NoSnap
              /\ cycle'[p] = NoCycle
    ]_vars

\* C12 witness: an add answered "not found" has gone through monitor_thread;
\* the store holds the one record and the next_id it held before.
C12_Witness ==
    \E p \in Procs :
        /\ pc[p] = "cleanup"
        /\ outc[p].add = "notfound"
        /\ outc[p].mon = "untracked"
        /\ store.kind = "json"
        /\ store.doc.next_id = 2
        /\ Cardinality(DOMAIN store.doc.threads) = 1
        /\ ~Tracked(store.doc, Key(p))

\* C13: a failed notification delivery does not stop monitoring: in a cycle
\* where some delivery fails, send_notification is still called once for
\* every post above the old cursor, the cursor and last_update are updated
\* and saved in that cycle, and the loop reaches its sleep, from which it
\* goes to the next fetch unless interrupted.
C13_FailedDeliveryIsNotFatal ==
    [][\A p \in Procs :
        /\ (pc[p] = "mon_check" /\ cycle'[p].failed # {})
           => LET old   == data[p].threads[Key(p)].last_post_no
                  posts == snap[p].body.posts
              IN  /\ \A i \in 1..Len(posts) :
                        posts[i].no > old => Count(cycle'[p].notified, posts[i].no) = 1
                  /\ data'[p].threads[Key(p)].last_post_no = posts[Len(posts)].no
                  /\ data'[p].threads[Key(p)].last_update = now
                  /\ pc'[p] = "save_open"
                  /\ ret'[p] = "mon_sleep"
        /\ (cycle[p].failed # {} /\ pc[p] = "save_write" /\ pc'[p] # pc[p])
           => /\ store' = Json(data[p])
              /\ pc'[p] = "mon_sleep"
        /\ (cycle[p].failed # {} /\ pc[p] = "mon_sleep" /\ pc'[p] # pc[p])
           => /\ store.kind = "json"
              /\ store.doc.threads[Key(p)].last_post_no = snap[p].body.posts[Len(snap[p].body.posts)].no
              /\ store.doc.threads[Key(p)] = data[p].threads[Key(p)]
              /\ pc'[p] = "mon_fetch" \/ outc'[p].mon = "interrupt"
    ]_vars

\* C13 witness: the delivery for post 3 failed, post 2 was notified after
\* it, the cursor 3 is in the store and the loop is asleep.
C13_Witness ==
    \E p \in Procs :
        /\ pc[p] = "mon_sleep"
        /\ cycle[p].notified = <<3, 2>>
        /\ cycle[p].failed = {3}
        /\ store.kind = "json"
        /\ store.doc.threads[Key(p)].last_post_no = 3

\* C14: the persisted last_post_no of a record never decreases while the
\* record exists, in any interleaving: whenever a save replaces a registry
\* held by the store, every record present in both (same key, same id) has
\* in the registry being saved a cursor at least the stored one.
C14_StoredCursorNeverDecreases ==
    [][\A p \in Procs :
        (pc[p] = "save_open" /\ pc'[p] = "save_write" /\ store.kind = "json")
            => \A k \in (DOMAIN store.doc.threads) \cap (DOMAIN data[p].threads) :
                    data[p].threads[k].id = store.doc.threads[k].id
                        => data[p].threads[k].last_post_no >= store.doc.threads[k].last_post_no
    ]_vars

\* C15: round trip of the store: saving the registry load_tracking_data
\* returned and loading again returns the same registry (records, fields
\* and next_id), whatever the file held; for a missing, unreadable or
\* corrupt file both loads return the empty registry with next_id 1.
C15_SaveLoadRoundTrip ==
    [][\A p \in Procs :
        /\ (pc[p] = "idle" /\ pc'[p] = "loaded")
           => /\ store.kind \in {"nofile", "partial", "unreadable"} => data'[p] = EmptyRegistry
              /\ (store.kind = "text" /\ ~json_load(store.text).ok) => data'[p] = EmptyRegistry
        /\ (pc[p] = "loaded" /\ pc'[p] # pc[p])
           => load_tracking_data(store') = data[p]
        /\ (pc[p] \in {"saved", "raised"} /\ pc'[p] = "reloaded")
           => /\ data'[p] = data[p]
              /\ DOMAIN data'[p].threads = DOMAIN data[p].threads
              /\ \A k \in DOMAIN data[p].threads : data'[p].threads[k] = data[p].threads[k]
              /\ data'[p].next_id = data[p].next_id
    ]_vars

\* C15 witness: a registry of two records and next_id 3 was loaded, saved
\* and loaded again.
C15_Witness ==
    \E p \in Procs :
        /\ pc[p] = "reloaded"
        /\ store.kind = "text"
        /\ DOMAIN data[p].threads = {"b_1", "g_1"}
        /\ data[p].threads["g_1"].last_post_no = MaxPostNo
        /\ data[p].next_id = 3

\* C16: list_threads presents the board groups in ascending order of board
\* name and, inside each group, the records in descending order of
\* last_update; every record of the registry appears exactly once, under its
\* own board; the store is the same after the call.
C16_ListingIsGroupedAndSorted ==
    [][\A p \in Procs :
        pc[p] = "list"
           => LET reg == load_tracking_data(store)
                  out == outc'[p].listed
                  Rows == {<<g, i>> : g \in 1..Len(out), i \in 1..Cardinality(DOMAIN reg.threads)}
                  At  == {x \in Rows : x[2] <= Len(out[x[1]].threads)}
              IN  /\ store' = store
                  /\ \A g, h \in 1..Len(out) : g < h => Ord(out[g].board) < Ord(out[h].board)
                  /\ \A g \in 1..Len(out) :
                        /\ out[g].threads # <<>>
                        /\ \A i, j \in 1..Len(out[g].threads) :
                              i < j => out[g].threads[i].last_update >= out[g].threads[j].last_update
                  /\ \A x \in At : out[x[1]].threads[x[2]].board = out[x[1]].board
                  /\ \A k \in DOMAIN reg.threads :
                        Cardinality({x \in At : out[x[1]].threads[x[2]] = reg.threads[k]}) = 1
                  /\ Cardinality(At) = Cardinality(DOMAIN reg.threads)
    ]_vars

\* C16 witness: three records were listed: board b before board g, and in
\* g the record updated later first although it has the lower id.
C16_Witness ==
    \E p \in Procs :
        /\ pc[p] = "cleanup"
        /\ Len(outc[p].listed) = 2
        /\ outc[p].listed[1].board = "b"
        /\ Len(outc[p].listed[2].threads) = 2
        /\ outc[p].listed[2].threads[1].last_update > outc[p].listed[2].threads[2].last_update
        /\ outc[p].listed[2].threads[1].id < outc[p].listed[2].threads[2].id

\* The fields of a record the poll loop never writes.
C17_Fixed(rec) ==
    <<rec.id, rec.board, rec.thread_id, rec.title, rec.added_time, rec.check_interval>>

\* C17: the poll loop changes only last_post_no and last_update of the
\* monitored record, and nothing else does: a cycle's update keeps the six
\* other fields, the other records and next_id; and every save that replaces
\* a stored registry keeps, for each record found before and after it, the
\* six fields, and last_post_no and last_update as well unless it is the
\* poll loop's save of the record it monitors.
C17_OnlyThePollLoopMovesTheCursor ==
    [][\A p \in Procs :
        /\ (pc[p] = "mon_check" /\ pc'[p] = "save_open" /\ ret'[p] = "mon_sleep")
           => /\ C17_Fixed(data'[p].threads[Key(p)]) = C17_Fixed(data[p].threads[Key(p)])
              /\ DOMAIN data'[p].threads = DOMAIN data[p].threads
              /\ \A k \in (DOMAIN data[p].threads) \ {Key(p)} :
                    data'[p].threads[k] = data[p].threads[k]
              /\ data'[p].next_id = data[p].next_id
        /\ (pc[p] = "save_open" /\ pc'[p] = "save_write" /\ store.kind = "json")
           => \A k \in (DOMAIN store.doc.threads) \cap (DOMAIN data[p].threads) :
                 data[p].threads[k].id = store.doc.threads[k].id
                    => /\ C17_Fixed(data[p].threads[k]) = C17_Fixed(store.doc.threads[k])
                       /\ ~(ret[p] = "mon_sleep" /\ k = Key(p))
                            => data[p].threads[k] = store.doc.threads[k]
    ]_vars

\* C17 witness: a day after the add, a cycle has moved the cursor of a
\* record added at a 60 second interval; the stored record has the new
\* cursor and last_update and the id, title, added_time and check_interval
\* of the add.
C17_Witness ==
    \E p \in Procs :
        /\ pc[p] = "mon_sleep"
        /\ cycle[p].saves = 1
        /\ store.kind = "json"
        /\ Tracked(store.doc, Key(p))
        /\ store.doc.threads[Key(p)].last_post_no = MaxPostNo
        /\ store.doc.threads[Key(p)].last_update = TickSecs
        /\ store.doc.threads[Key(p)].added_time = 0
        /\ store.doc.threads[Key(p)].check_interval = 60
        /\ store.doc.threads[Key(p)].title = "News"

\* C18: while the loop is suspended between two fetches, it is suspended
\* for the check_interval stored in the thread's record, also when the
\* invocation named an already tracked thread with another --interval.
C18_SleepsForStoredInterval ==
    \A p \in Procs :
        (pc[p] = "mon_sleep" /\ store.kind = "json" /\ Tracked(store.doc, Key(p)))
            => SleepSeconds(p) = store.doc.threads[Key(p)].check_interval

\* C19: a save by a running monitor_thread never undoes what another
\* invocation committed after the monitor loaded: when the monitor's save
\* replaces a stored registry, it brings back no record the store no longer
\* holds and drops no record the store holds, other than the monitored one
\* when the monitor itself deletes it.
C19_MonitorSaveUndoesNothing ==
    [][\A p \in Procs :
        ( /\ pc[p] = "save_open" /\ pc'[p] = "save_write"
          /\ ret[p] = "mon_sleep" \/ (ret[p] = "cleanup" /\ outc[p].mon = "vanished")
          /\ store.kind = "json" )
            => /\ DOMAIN data[p].threads \subseteq DOMAIN store.doc.threads
               /\ (DOMAIN store.doc.threads) \ {Key(p)} \subseteq DOMAIN data[p].threads
    ]_vars

\* C20: over the monitoring runs of one thread, one process at a time, each
\* run ended by an interrupt during the sleep or the fetch and the next
\* started from the stored record: no post number is notified a second
\* time, and no post at or below the cursor add_thread set is notified.
C20_NotifiedAtMostOnce ==
    \A k \in DOMAIN log :
        /\ ~log[k].twice
        /\ \A n \in log[k].seen : n > log[k].base

\* C20 witness: in the second run or later of a record added at cursor 1,
\* a cycle has notified post 3 alone, post 2 having been notified before.
C20_Witness ==
    \E p \in Procs :
        /\ pc[p] = "mon_sleep"
        /\ cycle[p].notified = <<3>>
        /\ Key(p) \in DOMAIN log
        /\ log[Key(p)].runs = 2
        /\ log[Key(p)].base = 1
        /\ log[Key(p)].seen = {2, 3}

====
